---- MODULE Spec2Model ----
(***************************************************************************)
(* Model of src/refresh_extract.py: a command-line client that signs in   *)
(* to a Tableau server, resolves project / workbook-or-datasource /       *)
(* schedule / extract-refresh-task names to ids, triggers "run now" and   *)
(* signs out.  main() is a straight-line procedure; every HTTP request is *)
(* one step of the model, the server's reply being the step's input.      *)
(*                                                                         *)
(* Values.  An id is a pair <<kind, n>>; Python's None and an absent XML  *)
(* element or attribute are the empty tuple <<>>; an element's text or an *)
(* attribute's value, when present, is a one-element tuple <<v>>.         *)
(***************************************************************************)
EXTENDS Integers, Sequences, FiniteSets, TLC

VARIABLES
    pyMajor,            \* major version of the interpreter running the script (2 or 3)
    argv,               \* the command-line inputs of main()
    srv,                \* the server's content: projects, workbooks, datasources, schedules, tasks
    sessions,           \* the tokens of the server's live sessions
    jobs,               \* the jobs the server has created
    pc,                 \* the position of main()
    auth_token, site_id, user_id,
    project_id, object_id, schedule_id, extract_refresh_id, job_id,
    page, max_page, projects,   \* locals of get_project_id across its requests
    requests,           \* every HTTP request sent so far, in order
    response,           \* the last response received
    success_code,       \* the status the caller of _check_status expects
    error               \* the exception that ended the run, or NoError

vars == <<pyMajor, argv, srv, sessions, jobs, pc, auth_token, site_id, user_id,
          project_id, object_id, schedule_id, extract_refresh_id, job_id,
          page, max_page, projects, requests, response, success_code, error>>

(***************************************************************************)
(* Bounds of the model and constants of the program.                       *)
(***************************************************************************)
PageSize == 100
MaxFullPages == 2
MaxLen == 3
MaxTasks == 2

None == <<>>

Id(kind, n) == <<kind, n>>

Min(a, b) == IF a < b THEN a ELSE b

(***************************************************************************)
(* Outcomes of a call: a returned value or a raised exception.             *)
(***************************************************************************)
Return(v) == [raised |-> "", value |-> v, msg |-> <<>>]

Raise(kind, msg) == [raised |-> kind, value |-> None, msg |-> msg]

NoError == [kind |-> "", msg |-> <<>>, stage |-> ""]

(***************************************************************************)
(* str.format of an optional text: None is rendered "None".                *)
(***************************************************************************)
Format(text) == IF text = None THEN "None" ELSE text[1]

(***************************************************************************)
(* _check_status: the error envelope decoded into an ApiCallError.         *)
(* An envelope is [error, summary, detail], each [present, ...]; the      *)
(* error element carries the optional attribute code, the other two their *)
(* optional text.                                                         *)
(***************************************************************************)
check_status(server_response, expected) ==
    IF server_response.status_code # expected
    THEN LET env == server_response.envelope
             code == IF env.error.present
                     THEN (IF env.error.code # None THEN env.error.code[1] ELSE "unknown")
                     ELSE "unknown code"
             summary == IF env.summary.present THEN Format(env.summary.text)
                        ELSE "unknown summary"
             detail == IF env.detail.present THEN Format(env.detail.text)
                       ELSE "unknown detail"
         IN Raise("ApiCallError", <<code, ": ", summary, " - ", detail>>)
    ELSE Return(None)

(***************************************************************************)
(* sign_in: the token, site id and user id of a 200 response.  find()      *)
(* returns None for a missing element and .get on None raises             *)
(* AttributeError.                                                         *)
(***************************************************************************)
sign_in(server_response) ==
    LET st == check_status(server_response, 200)
        body == server_response.body
    IN IF st.raised # "" THEN st
       ELSE IF body.credentials = None \/ body.site = None \/ body.user = None
            THEN Raise("AttributeError", <<"'NoneType' object has no attribute 'get'">>)
            ELSE Return(<<body.credentials[1], body.site[1], body.user[1]>>)

(***************************************************************************)
(* The division of get_project_id, total_projects / page_size, on two     *)
(* ints: floor division under Python 2, true division under Python 3.     *)
(* The quotient is kept as a fraction [num, den].                          *)
(***************************************************************************)
Divide(a, b) == IF pyMajor = 2 THEN [num |-> a \div b, den |-> 1] ELSE [num |-> a, den |-> b]

Ceil(q) == IF q.num % q.den = 0 THEN q.num \div q.den ELSE (q.num \div q.den) + 1

MaxPage(total_projects, page_size) == Ceil(Divide(total_projects, page_size))

(***************************************************************************)
(* The linear scans of the resolvers: the first match in listing order.    *)
(***************************************************************************)
(* The for loop over a listing of any length: the match of least index. *)
ScanProjects(projs, dest_project) ==
    LET named == {i \in DOMAIN projs : projs[i].name = dest_project}
    IN IF named = {} THEN None
       ELSE projs[CHOOSE i \in named : \A j \in named : i <= j].id

FindProjectFirstId(projs, dest_project) ==
    IF projs = <<>>
    THEN Raise("LookupError", <<"Project named '", dest_project, "' was not found on server">>)
    ELSE Return(projs[1].id)

FindProject(projs, dest_project) ==
    LET r == ScanProjects(projs, dest_project)
    IN IF r = None
       THEN Raise("LookupError", <<"Project named '", dest_project, "' was not found on server">>)
       ELSE Return(r)

RECURSIVE ScanWorkbooks(_, _, _, _)
ScanWorkbooks(workbooks, i, proj, workbook_name) ==
    IF i > Len(workbooks) THEN None
    ELSE IF workbooks[i].name = workbook_name /\ workbooks[i].project = proj
         THEN workbooks[i].id
    ELSE ScanWorkbooks(workbooks, i + 1, proj, workbook_name)

RECURSIVE ScanByName(_, _, _)
ScanByName(entries, i, name) ==
    IF i > Len(entries) THEN None
    ELSE IF entries[i].name = name THEN entries[i].id
    ELSE ScanByName(entries, i + 1, name)

get_workbook_id_by_name(server_response, proj, workbook_name) ==
    LET st == check_status(server_response, 200)
        r == ScanByName(server_response.body.items, 1, workbook_name)
    IN IF st.raised # "" THEN st
       ELSE IF r = None
            THEN Raise("LookupError", <<"Workbook named '", workbook_name, "' not found.">>)
            ELSE Return(r)

get_workbook_id(server_response, proj, workbook_name) ==
    LET st == check_status(server_response, 200)
        r == ScanWorkbooks(server_response.body.items, 1, proj, workbook_name)
    IN IF st.raised # "" THEN st
       ELSE IF r = None
            THEN Raise("LookupError", <<"Workbook named '", workbook_name, "' not found.">>)
            ELSE Return(r)

RECURSIVE ScanDatasources(_, _, _, _)
ScanDatasources(datasources, i, proj, datasource_name) ==
    IF i > Len(datasources) THEN None
    ELSE IF datasources[i].name = datasource_name /\ datasources[i].project = proj
         THEN datasources[i].id
    ELSE ScanDatasources(datasources, i + 1, proj, datasource_name)

get_datasource_id(server_response, proj, datasource_name) ==
    LET st == check_status(server_response, 200)
        r == ScanDatasources(server_response.body.items, 1, proj, datasource_name)
    IN IF st.raised # "" THEN st
       ELSE IF r = None
            THEN Raise("LookupError", <<"Datasource named '", datasource_name, "' not found.">>)
            ELSE Return(r)

RECURSIVE ScanSchedules(_, _, _)
ScanSchedules(schedules, i, schedule_name) ==
    IF i > Len(schedules) THEN None
    ELSE IF schedules[i].name = schedule_name THEN schedules[i].id
    ELSE ScanSchedules(schedules, i + 1, schedule_name)

get_schedule_id(server_response, schedule_name) ==
    LET st == check_status(server_response, 200)
        r == ScanSchedules(server_response.body.items, 1, schedule_name)
    IN IF st.raised # "" THEN st
       ELSE IF r = None
            THEN Raise("LookupError", <<"Schedule named '", schedule_name, "' not found.">>)
            ELSE Return(r)

(***************************************************************************)
(* A task is [schedule, workbook, datasource, extractRefresh]: the ids of *)
(* its children, workbook and datasource being None when absent.          *)
(***************************************************************************)
Child(task, object_type) ==
    IF object_type = "workbook" THEN task.workbook
    ELSE IF object_type = "datasource" THEN task.datasource
    ELSE None

RECURSIVE ScanTasks(_, _, _, _, _)
ScanTasks(tasks, i, sched, object_type, obj_id) ==
    IF i > Len(tasks) THEN None
    ELSE IF /\ Child(tasks[i], object_type) # None
            /\ tasks[i].schedule = sched
            /\ Child(tasks[i], object_type) = obj_id
         THEN tasks[i].extractRefresh
    ELSE ScanTasks(tasks, i + 1, sched, object_type, obj_id)

RECURSIVE ScanTasksAnyType(_, _, _)
ScanTasksAnyType(tasks, i, sched) ==
    IF i > Len(tasks) THEN None
    ELSE IF tasks[i].schedule = sched THEN tasks[i].extractRefresh
    ELSE ScanTasksAnyType(tasks, i + 1, sched)

get_extract_refresh_id_by_schedule(server_response, sched, object_type, obj_id) ==
    LET st == check_status(server_response, 200)
        r == ScanTasksAnyType(server_response.body.items, 1, sched)
    IN IF st.raised # "" THEN st
       ELSE IF r = None
            THEN Raise("LookupError", <<"Extract with schedule_id '", sched,
                                        "' and object_id '", obj_id, "' not found.">>)
            ELSE Return(r)

get_extract_refresh_id(server_response, sched, object_type, obj_id) ==
    LET st == check_status(server_response, 200)
        r == ScanTasks(server_response.body.items, 1, sched, object_type, obj_id)
    IN IF st.raised # "" THEN st
       ELSE IF r = None
            THEN Raise("LookupError", <<"Extract with schedule_id '", sched,
                                        "' and object_id '", obj_id, "' not found.">>)
            ELSE Return(r)

run_extract_refresh_task(server_response) ==
    LET st == check_status(server_response, 200)
    IN IF st.raised # "" THEN st ELSE Return(server_response.body.job[1])

sign_out(server_response) == check_status(server_response, 204)

(***************************************************************************)
(* The requests the script sends: [op, method, token, page, id].  token   *)
(* is the x-tableau-auth header (None when the request has none), page    *)
(* the pageNumber of a paged listing, id the task id in a run-now URL.    *)
(***************************************************************************)
SignInRequest ==
    [op |-> "signin", method |-> "POST", token |-> None, page |-> 0, id |-> None]

SignOutRequest(token) ==
    [op |-> "signout", method |-> "POST", token |-> token, page |-> 0, id |-> None]

ProjectsRequest(token, page_num) ==
    [op |-> "projects", method |-> "GET", token |-> token, page |-> page_num, id |-> None]

WorkbooksRequest(token) ==
    [op |-> "workbooks", method |-> "GET", token |-> token, page |-> 0, id |-> None]

DatasourcesRequest(token) ==
    [op |-> "datasources", method |-> "GET", token |-> token, page |-> 0, id |-> None]

SchedulesRequestNoAuth(token) ==
    [op |-> "schedules", method |-> "GET", token |-> None, page |-> 0, id |-> None]

SchedulesRequest(token) ==
    [op |-> "schedules", method |-> "GET", token |-> token, page |-> 0, id |-> None]

TasksRequest(token) ==
    [op |-> "extractRefreshes", method |-> "GET", token |-> token, page |-> 0, id |-> None]

RunNowRequestForSchedule(token, task_id) ==
    [op |-> "runNow", method |-> "POST", token |-> token, page |-> 0, id |-> schedule_id]

RunNowRequest(token, task_id) ==
    [op |-> "runNow", method |-> "POST", token |-> token, page |-> 0, id |-> task_id]

(***************************************************************************)
(* The server's replies.                                                   *)
(***************************************************************************)
Absent == [present |-> FALSE, text |-> None]

NoEnvelope == [error |-> [present |-> FALSE, code |-> None], summary |-> Absent, detail |-> Absent]

ErrorElements == {[present |-> FALSE, code |-> None],
                  [present |-> TRUE, code |-> None],
                  [present |-> TRUE, code |-> <<"400006">>]}

SummaryElements == {Absent, [present |-> TRUE, text |-> None],
                    [present |-> TRUE, text |-> <<"Invalid...">>]}

DetailElements == {Absent, [present |-> TRUE, text |-> None],
                   [present |-> TRUE, text |-> <<"Login failed">>]}

Envelopes == [error : ErrorElements, summary : SummaryElements, detail : DetailElements]

FullEnvelope ==
    [error |-> [present |-> TRUE, code |-> <<"401002">>],
     summary |-> [present |-> TRUE, text |-> <<"Unauthorized Access">>],
     detail |-> [present |-> TRUE, text |-> <<"Invalid authentication credentials">>]]

EmptyBody ==
    [credentials |-> None, site |-> None, user |-> None,
     totalAvailable |-> 0, items |-> <<>>, job |-> None]

Ok(status, body) == [status_code |-> status, envelope |-> NoEnvelope, body |-> body]

ErrorResponses == {[status_code |-> 401, envelope |-> FullEnvelope, body |-> EmptyBody]}

Tokens == {Id("t", 1), Id("t", 2)}

SignInResponses ==
    {Ok(200, [EmptyBody EXCEPT !.credentials = c, !.site = s, !.user = u]) :
        c \in {None} \cup {<<t>> : t \in Tokens},
        s \in {None, <<Id("site", 1)>>},
        u \in {None, <<Id("u", 1)>>}}
    \cup ErrorResponses

ProjectsPage(p) ==
    SubSeq(srv.projects, (p - 1) * PageSize + 1, Min(p * PageSize, Len(srv.projects)))

ProjectsResponses(p) ==
    {Ok(200, [EmptyBody EXCEPT !.totalAvailable = Len(srv.projects), !.items = ProjectsPage(p)])}
    \cup ErrorResponses

ListingResponses(items) == {Ok(200, [EmptyBody EXCEPT !.items = items])} \cup ErrorResponses

TaskIds == {srv.tasks[i].extractRefresh : i \in DOMAIN srv.tasks}

NewJob(req) == [id |-> Id("j", Cardinality(jobs) + 1), task |-> req.id]

RunNowResponses(req) ==
    IF req.token \in sessions /\ req.id \in TaskIds
    THEN {Ok(200, [EmptyBody EXCEPT !.job = <<NewJob(req).id>>])} \cup ErrorResponses
    ELSE ErrorResponses

SignOutResponses == {Ok(204, EmptyBody)} \cup ErrorResponses

(***************************************************************************)
(* An exception nothing in main() catches ends the run.                    *)
(***************************************************************************)
NextStage(stage) ==
    CASE stage = "sign_in" -> "get_project_id"
      [] stage = "get_project_id" -> "get_object_id"
      [] stage = "get_object_id" -> "get_schedule_id"
      [] stage = "get_schedule_id" -> "get_extract_refresh_id"
      [] stage = "get_extract_refresh_id" -> "run_extract_refresh_task"
      [] stage = "run_extract_refresh_task" -> "sign_out"
      [] OTHER -> "done"

PropagateAndContinue(stage, out) ==
    /\ pc' = NextStage(stage)
    /\ error' = [kind |-> out.raised, msg |-> out.msg, stage |-> stage]

Propagate(stage, out) ==
    /\ pc' = "failed"
    /\ error' = [kind |-> out.raised, msg |-> out.msg, stage |-> stage]

(***************************************************************************)
(* main(), one action per request.                                         *)
(***************************************************************************)
SignIn ==
    /\ pc = "sign_in"
    /\ \E resp \in SignInResponses :
          LET out == sign_in(resp) IN
          /\ requests' = Append(requests, SignInRequest)
          /\ response' = resp
          /\ success_code' = 200
          /\ sessions' = IF resp.status_code = 200 /\ resp.body.credentials # None
                         THEN sessions \cup {resp.body.credentials[1]}
                         ELSE sessions
          /\ IF out.raised # ""
             THEN /\ Propagate("sign_in", out)
                  /\ UNCHANGED <<auth_token, site_id, user_id>>
             ELSE /\ pc' = "get_project_id"
                  /\ auth_token' = out.value[1]
                  /\ site_id' = out.value[2]
                  /\ user_id' = out.value[3]
                  /\ UNCHANGED error
    /\ UNCHANGED <<pyMajor, argv, srv, jobs, project_id, object_id, schedule_id,
                   extract_refresh_id, job_id, page, max_page, projects>>

(* The tail of get_project_id once every page is fetched: the scan. *)
ProjectsFetched(projs) ==
    LET out == FindProject(projs, argv.project_name) IN
    IF out.raised # ""
    THEN Propagate("get_project_id", out) /\ UNCHANGED project_id
    ELSE pc' = "get_object_id" /\ project_id' = out.value /\ UNCHANGED error

GetProjectIdFirstPage ==
    /\ pc = "get_project_id"
    /\ \E resp \in ProjectsResponses(1) :
          LET st == check_status(resp, 200)
              mp == MaxPage(resp.body.totalAvailable, PageSize)
          IN
          /\ requests' = Append(requests, ProjectsRequest(auth_token, 1))
          /\ response' = resp
          /\ success_code' = 200
          /\ IF st.raised # ""
             THEN /\ Propagate("get_project_id", st)
                  /\ UNCHANGED <<project_id, page, max_page, projects>>
             ELSE /\ max_page' = mp
                  /\ projects' = resp.body.items
                  /\ IF mp >= 2
                     THEN /\ pc' = "get_project_id_page"
                          /\ page' = 2
                          /\ UNCHANGED <<project_id, error>>
                     ELSE /\ ProjectsFetched(resp.body.items)
                          /\ UNCHANGED page
    /\ UNCHANGED <<pyMajor, argv, srv, sessions, jobs, auth_token, site_id, user_id,
                   object_id, schedule_id, extract_refresh_id, job_id>>

GetProjectIdNextPage ==
    /\ pc = "get_project_id_page"
    /\ \E resp \in ProjectsResponses(page) :
          LET st == check_status(resp, 200)
              projs == projects \o resp.body.items
          IN
          /\ requests' = Append(requests, ProjectsRequest(auth_token, page))
          /\ response' = resp
          /\ success_code' = 200
          /\ IF st.raised # ""
             THEN /\ Propagate("get_project_id", st)
                  /\ UNCHANGED <<project_id, page, projects>>
             ELSE /\ projects' = projs
                  /\ IF page < max_page
                     THEN /\ page' = page + 1
                          /\ UNCHANGED <<pc, project_id, error>>
                     ELSE /\ ProjectsFetched(projs)
                          /\ UNCHANGED page
    /\ UNCHANGED <<pyMajor, argv, srv, sessions, jobs, auth_token, site_id, user_id,
                   object_id, schedule_id, extract_refresh_id, job_id, max_page>>

GetObjectId ==
    /\ pc = "get_object_id"
    /\ LET ds == argv.object_type = "datasource"
           req == IF ds THEN DatasourcesRequest(auth_token) ELSE WorkbooksRequest(auth_token)
       IN
       \E resp \in ListingResponses(IF ds THEN srv.datasources ELSE srv.workbooks) :
          LET out == IF ds THEN get_datasource_id(resp, project_id, argv.object_name)
                     ELSE get_workbook_id(resp, project_id, argv.object_name)
          IN
          /\ requests' = Append(requests, req)
          /\ response' = resp
          /\ success_code' = 200
          /\ IF out.raised # ""
             THEN Propagate("get_object_id", out) /\ UNCHANGED object_id
             ELSE pc' = "get_schedule_id" /\ object_id' = out.value /\ UNCHANGED error
    /\ UNCHANGED <<pyMajor, argv, srv, sessions, jobs, auth_token, site_id, user_id,
                   project_id, schedule_id, extract_refresh_id, job_id, page, max_page,
                   projects>>

GetScheduleId ==
    /\ pc = "get_schedule_id"
    /\ \E resp \in ListingResponses(srv.schedules) :
          LET out == get_schedule_id(resp, argv.schedule_name) IN
          /\ requests' = Append(requests, SchedulesRequest(auth_token))
          /\ response' = resp
          /\ success_code' = 200
          /\ IF out.raised # ""
             THEN Propagate("get_schedule_id", out) /\ UNCHANGED schedule_id
             ELSE pc' = "get_extract_refresh_id" /\ schedule_id' = out.value
                  /\ UNCHANGED error
    /\ UNCHANGED <<pyMajor, argv, srv, sessions, jobs, auth_token, site_id, user_id,
                   project_id, object_id, extract_refresh_id, job_id, page, max_page,
                   projects>>

GetExtractRefreshId ==
    /\ pc = "get_extract_refresh_id"
    /\ \E resp \in ListingResponses(srv.tasks) :
          LET out == get_extract_refresh_id(resp, schedule_id, argv.object_type, object_id) IN
          /\ requests' = Append(requests, TasksRequest(auth_token))
          /\ response' = resp
          /\ success_code' = 200
          /\ IF out.raised # ""
             THEN Propagate("get_extract_refresh_id", out) /\ UNCHANGED extract_refresh_id
             ELSE pc' = "run_extract_refresh_task" /\ extract_refresh_id' = out.value
                  /\ UNCHANGED error
    /\ UNCHANGED <<pyMajor, argv, srv, sessions, jobs, auth_token, site_id, user_id,
                   project_id, object_id, schedule_id, job_id, page, max_page, projects>>

RunExtractRefreshTask ==
    /\ pc = "run_extract_refresh_task"
    /\ LET req == RunNowRequest(auth_token, extract_refresh_id) IN
       \E resp \in RunNowResponses(req) :
          LET out == run_extract_refresh_task(resp) IN
          /\ requests' = Append(requests, req)
          /\ response' = resp
          /\ success_code' = 200
          /\ jobs' = IF resp.status_code = 200 THEN jobs \cup {NewJob(req)} ELSE jobs
          /\ IF out.raised # ""
             THEN Propagate("run_extract_refresh_task", out) /\ UNCHANGED job_id
             ELSE pc' = "sign_out" /\ job_id' = out.value /\ UNCHANGED error
    /\ UNCHANGED <<pyMajor, argv, srv, sessions, auth_token, site_id, user_id,
                   project_id, object_id, schedule_id, extract_refresh_id, page, max_page,
                   projects>>

SignOut ==
    /\ pc = "sign_out"
    /\ \E resp \in SignOutResponses :
          LET out == sign_out(resp) IN
          /\ requests' = Append(requests, SignOutRequest(auth_token))
          /\ response' = resp
          /\ success_code' = 204
          /\ sessions' = IF resp.status_code = 204 THEN sessions \ {auth_token} ELSE sessions
          /\ IF out.raised # ""
             THEN Propagate("sign_out", out)
             ELSE pc' = "done" /\ UNCHANGED error
    /\ UNCHANGED <<pyMajor, argv, srv, jobs, auth_token, site_id, user_id, project_id,
                   object_id, schedule_id, extract_refresh_id, job_id, page, max_page,
                   projects>>

(***************************************************************************)
(* Initial states.                                                         *)
(***************************************************************************)
Project(i, name) == [id |-> Id("p", i), name |-> name]

(* A server listing of total projects: "Default" first, "Sales" at hits. *)
ProjectListing(total, hits) ==
    [i \in 1..total |->
        Project(i, IF i \in hits THEN "Sales" ELSE IF i = 1 THEN "Default" ELSE "Other")]

Entry(i, name, proj) == [id |-> Id("o", i), name |-> name, project |-> proj]

Schedule(i, name) == [id |-> Id("s", i), name |-> name]

Task(i, sched, wb, ds) ==
    [schedule |-> sched, workbook |-> wb, datasource |-> ds, extractRefresh |-> Id("e", i)]

DefaultObjects ==
    <<Entry(1, "Book1", Id("p", 2)), Entry(2, "Book1", Id("p", 1)), Entry(3, "Book2", Id("p", 1))>>

DefaultSchedules == <<Schedule(1, "Nightly"), Schedule(2, "End of the month")>>

DefaultTasks ==
    <<Task(1, Id("s", 1), Id("o", 2), None),
      Task(2, Id("s", 2), None, Id("o", 2)),
      Task(3, Id("s", 2), Id("o", 2), None),
      Task(4, Id("s", 2), Id("o", 1), None)>>

DefaultServer ==
    [projects |-> ProjectListing(2, {2}), workbooks |-> DefaultObjects,
     datasources |-> DefaultObjects, schedules |-> DefaultSchedules, tasks |-> DefaultTasks]

DefaultArgv ==
    [object_type |-> "workbook", project_name |-> "Default", object_name |-> "Book1",
     schedule_name |-> "End of the month"]

(* The state at the start of main(), before any request. *)
Start ==
    /\ pyMajor \in {2, 3}
    /\ sessions = {}
    /\ jobs = {}
    /\ pc = "sign_in"
    /\ auth_token = None /\ site_id = None /\ user_id = None
    /\ project_id = None /\ object_id = None /\ schedule_id = None
    /\ extract_refresh_id = None /\ job_id = None
    /\ page = 1 /\ max_page = 0 /\ projects = <<>>
    /\ requests = <<>>
    /\ response = Ok(0, EmptyBody)
    /\ success_code = 200
    /\ error = NoError

Init ==
    /\ Start
    /\ argv \in [object_type : {"workbook", "datasource"},
                 project_name : {"Default", "Sales", "Marketing"},
                 object_name : {"Book1", "Book9"},
                 schedule_name : {"End of the month", "Hourly"}]
    /\ \E total \in {2, PageSize + 1} :
          srv = [DefaultServer EXCEPT !.projects = ProjectListing(total, {total})]

Next ==
    \/ SignIn
    \/ GetProjectIdFirstPage
    \/ GetProjectIdNextPage
    \/ GetObjectId
    \/ GetScheduleId
    \/ GetExtractRefreshId
    \/ RunExtractRefreshTask
    \/ SignOut

Spec == Init /\ [][Next]_vars

(***************************************************************************)
(* Properties of a run of main().                                          *)
(***************************************************************************)
Count(op) == Cardinality({i \in DOMAIN requests : requests[i].op = op})

Ended == pc \in {"done", "failed"}

ResolverOps == {"projects", "workbooks", "datasources", "schedules", "extractRefreshes"}

(* The request a stage of main() sends. *)
StageOps(stage) ==
    CASE stage = "sign_in" -> {"signin"}
      [] stage = "get_project_id" -> {"projects"}
      [] stage = "get_object_id" -> {"workbooks", "datasources"}
      [] stage = "get_schedule_id" -> {"schedules"}
      [] stage = "get_extract_refresh_id" -> {"extractRefreshes"}
      [] stage = "run_extract_refresh_task" -> {"runNow"}
      [] stage = "sign_out" -> {"signout"}
      [] OTHER -> {}

(* C1 (as claimed): in every run in which sign-in succeeded, sign-out has
   been sent exactly once when the run ends, whether every stage succeeded
   or a stage after sign-in raised. *)
C1_SignOutOnEveryExit ==
    (Ended /\ auth_token # None) => Count("signout") = 1

(* C2: every request after sign-in carries exactly the token sign-in
   returned, a token the server issued, and nothing is sent after the
   sign-out request. *)
C2_TokenOnEveryRequest ==
    /\ \A i \in DOMAIN requests :
          /\ (i = 1) <=> (requests[i].op = "signin")
          /\ i > 1 => /\ requests[i].token = auth_token
                      /\ auth_token \in Tokens
          /\ requests[i].op = "signout" => i = Len(requests)
    /\ (Len(requests) > 1 /\ Count("signout") = 0) => auth_token \in sessions

C2_Witness ==
    /\ pc = "done"
    /\ Count("signout") = 1
    /\ Count("runNow") = 1
    /\ auth_token = Id("t", 2)

(* C3: an error ends the run at once: the failed request is the last one
   sent, no request is sent twice, and run-now is sent only after the
   project, object, schedule and task lookups have each been sent once and
   have returned an id. *)
C3_AbortNoRetry ==
    /\ error.kind # "" =>
          /\ pc = "failed"
          /\ requests # <<>>
          /\ requests[Len(requests)].op \in StageOps(error.stage)
    /\ \A i, j \in DOMAIN requests :
          (requests[i].op = requests[j].op /\ requests[i].page = requests[j].page) => i = j
    /\ Count("runNow") > 0 =>
          /\ project_id # None /\ object_id # None
          /\ schedule_id # None /\ extract_refresh_id # None
          /\ Count("projects") >= 1
          /\ Count("workbooks") + Count("datasources") = 1
          /\ Count("schedules") = 1
          /\ Count("extractRefreshes") = 1

C3_Witness ==
    /\ pc = "failed"
    /\ error.stage = "get_schedule_id"
    /\ error.kind = "LookupError"
    /\ Count("extractRefreshes") = 0
    /\ Count("runNow") = 0

(* C8 (as claimed): sign-in returns a session only for a 200 response with
   the credentials, site and user elements; for any other response it
   fails with ApiCallError and returns no session. *)
C8_SignInFailsWithApiCallError ==
    Len(requests) = 1 =>
        LET complete == /\ response.status_code = 200
                        /\ response.body.credentials # None
                        /\ response.body.site # None
                        /\ response.body.user # None
        IN IF complete
           THEN error.kind = "" /\ auth_token = response.body.credentials[1]
           ELSE error.kind = "ApiCallError" /\ auth_token = None

(* The state part of C10: the resolver requests are GETs; a run sends at
   most one run-now, which creates at most one job, and that job is for the
   task id the task lookup returned. *)
C10_Inv ==
    /\ \A i \in DOMAIN requests :
          /\ requests[i].op \in ResolverOps => requests[i].method = "GET"
          /\ requests[i].op = "runNow" =>
                /\ requests[i].method = "POST"
                /\ extract_refresh_id # None
                /\ requests[i].id = extract_refresh_id
    /\ Count("runNow") <= 1
    /\ Cardinality(jobs) <= Count("runNow")
    /\ \A j \in jobs : j.task = extract_refresh_id /\ j.task \in TaskIds
    /\ job_id # None => \E j \in jobs : j.id = job_id

(* The step part of C10: no step changes the server's projects, objects,
   schedules or tasks, and only the run-now step changes its jobs. *)
C10_Step ==
    /\ srv' = srv
    /\ jobs' # jobs => pc = "run_extract_refresh_task" /\ pc' \in {"sign_out", "failed"}

(* C10, in full: the state part in every reachable state and the step part
   on every step of a run. *)
C10_OnlyRunNowMutates == []C10_Inv /\ [][C10_Step]_vars

C10_Witness ==
    /\ pc = "done"
    /\ Cardinality(jobs) = 1
    /\ \E j \in jobs : j.id = job_id /\ j.task = extract_refresh_id

(***************************************************************************)
(* get_project_id on its own: main() after a successful sign-in, over      *)
(* server listings of 0 to MaxFullPages full pages and more.               *)
(***************************************************************************)
SignedIn(stage, sent) ==
    /\ pyMajor \in {2, 3}
    /\ sessions = {Id("t", 1)}
    /\ jobs = {}
    /\ pc = stage
    /\ auth_token = Id("t", 1) /\ site_id = Id("site", 1) /\ user_id = Id("u", 1)
    /\ extract_refresh_id = None /\ job_id = None
    /\ requests = sent
    /\ success_code = 200
    /\ error = NoError

Totals == {k * PageSize + d : k \in 0..MaxFullPages, d \in {0, 1, PageSize \div 2}}

HitPlaces(total) == {1, 2, PageSize, PageSize + 1, total} \cap (1..total)

InitProjects ==
    /\ SignedIn("get_project_id", <<SignInRequest>>)
    /\ project_id = None /\ object_id = None /\ schedule_id = None
    /\ page = 1 /\ max_page = 0 /\ projects = <<>>
    /\ response = Ok(200, [EmptyBody EXCEPT !.credentials = <<Id("t", 1)>>,
                                            !.site = <<Id("site", 1)>>,
                                            !.user = <<Id("u", 1)>>])
    /\ \E name \in {"Default", "Sales", "Marketing"} :
          argv = [DefaultArgv EXCEPT !.project_name = name]
    /\ \E total \in Totals :
          \E hits \in {h \in SUBSET HitPlaces(total) : Cardinality(h) <= 2} :
             srv = [DefaultServer EXCEPT !.projects = ProjectListing(total, hits)]

NextProjects == GetProjectIdFirstPage \/ GetProjectIdNextPage

SpecProjects == InitProjects /\ [][NextProjects]_vars

(* get_project_id has fetched its pages and scanned them. *)
ProjectScanDone ==
    \/ pc = "get_object_id"
    \/ pc = "failed" /\ error.stage = "get_project_id" /\ error.kind = "LookupError"

IsProjectsRequest(r) == r.op = "projects"

PagesRequested == SelectSeq(requests, IsProjectsRequest)

NamedAt(listing, name) == {i \in DOMAIN listing : listing[i].name = name}

(* C4 (as claimed): with maxPage = ceil(totalAvailable / pageSize), each of
   the pages 1..maxPage is requested exactly once, in increasing order, the
   scan runs over the concatenation of those pages, which is the server's
   whole listing, and so a project of the listing is found wherever it is,
   on the last page too. *)
C4_AllPagesFetched ==
    ProjectScanDone =>
        LET total == Len(srv.projects)
            maxPage == (total + PageSize - 1) \div PageSize
        IN /\ \A p \in 1..maxPage :
                 Cardinality({i \in DOMAIN PagesRequested : PagesRequested[i].page = p}) = 1
           /\ \A i \in 1..(Len(PagesRequested) - 1) :
                 PagesRequested[i].page < PagesRequested[i + 1].page
           /\ projects = srv.projects
           /\ NamedAt(srv.projects, argv.project_name) # {} =>
                 /\ pc = "get_object_id"
                 /\ \E i \in NamedAt(srv.projects, argv.project_name) :
                       srv.projects[i].id = project_id

(* C9: once the pages are fetched, the lookup returns the id of a project
   of the fetched listing whose name is the target when there is one, and
   otherwise raises the not-found error that names the target; it never
   returns the id of a project of another name. *)
C9_ProjectByName ==
    ProjectScanDone =>
        IF NamedAt(projects, argv.project_name) # {}
        THEN /\ pc = "get_object_id"
             /\ error = NoError
             /\ \E i \in NamedAt(projects, argv.project_name) : projects[i].id = project_id
             /\ \A i \in DOMAIN projects :
                   projects[i].id = project_id => projects[i].name = argv.project_name
        ELSE /\ pc = "failed"
             /\ error.kind = "LookupError"
             /\ error.msg = <<"Project named '", argv.project_name, "' was not found on server">>
             /\ project_id = None

C9_Witness ==
    /\ pc = "get_object_id"
    /\ argv.project_name = "Sales"
    /\ Len(projects) > PageSize
    /\ project_id = Id("p", PageSize + 1)
    /\ projects[1].name = "Default"

(***************************************************************************)
(* get_workbook_id and get_datasource_id on their own: main() after the    *)
(* project lookup, over every listing of at most MaxLen entries.           *)
(***************************************************************************)
ObjectListings ==
    UNION {{[i \in 1..n |-> Entry(i, f[i][1], f[i][2])] :
               f \in [1..n -> {"Book1", "Book2"} \X {Id("p", 1), Id("p", 2)}]} :
           n \in 0..MaxLen}

InitObject ==
    /\ SignedIn("get_object_id", <<SignInRequest, ProjectsRequest(Id("t", 1), 1)>>)
    /\ object_id = None /\ schedule_id = None
    /\ page = 1
    /\ max_page = MaxPage(Len(DefaultServer.projects), PageSize)
    /\ projects = DefaultServer.projects
    /\ response = Ok(200, [EmptyBody EXCEPT !.totalAvailable = Len(DefaultServer.projects),
                                            !.items = DefaultServer.projects])
    /\ \E i \in DOMAIN DefaultServer.projects :
          /\ project_id = DefaultServer.projects[i].id
          /\ \E type \in {"workbook", "datasource"} :
                argv = [DefaultArgv EXCEPT !.project_name = DefaultServer.projects[i].name,
                                           !.object_type = type]
    /\ \E listing \in ObjectListings :
          srv = IF argv.object_type = "datasource"
                THEN [DefaultServer EXCEPT !.datasources = listing]
                ELSE [DefaultServer EXCEPT !.workbooks = listing]

NextObject == GetObjectId

SpecObject == InitObject /\ [][NextObject]_vars

ObjectListing == IF argv.object_type = "datasource" THEN srv.datasources ELSE srv.workbooks

ObjectMatches ==
    {i \in DOMAIN ObjectListing : /\ ObjectListing[i].name = argv.object_name
                                  /\ ObjectListing[i].project = project_id}

(* C5: the object lookup returns only the id of an entry of the listing
   whose name is the target and whose project is the resolved project,
   never that of a same-named entry of another project, and raises the
   not-found error when no entry has both. *)
C5_ObjectScopedToProject ==
    (pc # "get_object_id" /\ response.status_code = 200) =>
        IF ObjectMatches # {}
        THEN /\ pc = "get_schedule_id"
             /\ error = NoError
             /\ \E i \in ObjectMatches : ObjectListing[i].id = object_id
             /\ \A i \in DOMAIN ObjectListing :
                   ObjectListing[i].id = object_id => i \in ObjectMatches
        ELSE /\ pc = "failed"
             /\ error.kind = "LookupError"
             /\ error.stage = "get_object_id"
             /\ object_id = None

C5_Witness ==
    /\ pc = "get_schedule_id"
    /\ argv.object_type = "workbook"
    /\ Len(srv.workbooks) >= 2
    /\ srv.workbooks[1].name = argv.object_name
    /\ srv.workbooks[1].project # project_id
    /\ object_id = srv.workbooks[2].id

(***************************************************************************)
(* get_extract_refresh_id on its own: main() after the schedule lookup,    *)
(* over every task listing of at most MaxTasks tasks.                      *)
(***************************************************************************)
TaskShapes ==
    {Id("s", 1), Id("s", 2)} \X
    {<<None, None>>, <<Id("o", 1), None>>, <<Id("o", 2), None>>,
     <<None, Id("o", 1)>>, <<None, Id("o", 2)>>}

TaskListings ==
    UNION {{[i \in 1..n |-> Task(i, f[i][1], f[i][2][1], f[i][2][2])] :
               f \in [1..n -> TaskShapes]} :
           n \in 0..MaxTasks}

InitTask ==
    /\ \E type \in {"workbook", "datasource"} :
       \E o \in DOMAIN DefaultObjects :
       \E s \in DOMAIN DefaultSchedules :
          /\ SignedIn("get_extract_refresh_id",
                      <<SignInRequest, ProjectsRequest(Id("t", 1), 1),
                        IF type = "datasource" THEN DatasourcesRequest(Id("t", 1))
                        ELSE WorkbooksRequest(Id("t", 1)),
                        SchedulesRequest(Id("t", 1))>>)
          /\ DefaultObjects[o].name = "Book1"
          /\ object_id = DefaultObjects[o].id
          /\ project_id = DefaultObjects[o].project
          /\ schedule_id = DefaultSchedules[s].id
          /\ argv = [object_type |-> type,
                     project_name |-> IF project_id = Id("p", 1) THEN "Default" ELSE "Sales",
                     object_name |-> "Book1",
                     schedule_name |-> DefaultSchedules[s].name]
    /\ page = 1
    /\ max_page = MaxPage(Len(DefaultServer.projects), PageSize)
    /\ projects = DefaultServer.projects
    /\ response = Ok(200, [EmptyBody EXCEPT !.items = DefaultSchedules])
    /\ \E listing \in TaskListings : srv = [DefaultServer EXCEPT !.tasks = listing]

NextTask == GetExtractRefreshId

SpecTask == InitTask /\ [][NextTask]_vars

TaskMatches ==
    {i \in DOMAIN srv.tasks :
        /\ srv.tasks[i].schedule = schedule_id
        /\ IF argv.object_type = "workbook" THEN srv.tasks[i].workbook = object_id
           ELSE srv.tasks[i].datasource = object_id}

(* C6: the task lookup returns the extractRefresh id of the first task, in
   listing order, of the resolved schedule whose child of the given object
   type has the resolved object id; a task whose object child is of the
   other type or is absent does not match; the lookup raises the not-found
   error exactly when no task matches. *)
C6_FirstMatchingTask ==
    (pc # "get_extract_refresh_id" /\ response.status_code = 200) =>
        IF TaskMatches # {}
        THEN /\ pc = "run_extract_refresh_task"
             /\ error = NoError
             /\ \E i \in TaskMatches :
                   /\ \A j \in TaskMatches : i <= j
                   /\ extract_refresh_id = srv.tasks[i].extractRefresh
        ELSE /\ pc = "failed"
             /\ error.kind = "LookupError"
             /\ error.stage = "get_extract_refresh_id"
             /\ extract_refresh_id = None

C6_Witness ==
    /\ pc = "run_extract_refresh_task"
    /\ argv.object_type = "workbook"
    /\ Len(srv.tasks) = 2
    /\ srv.tasks[1].schedule = schedule_id
    /\ srv.tasks[1].datasource = object_id
    /\ extract_refresh_id = srv.tasks[2].extractRefresh

(***************************************************************************)
(* _check_status on its own, over every status, expected code and error   *)
(* envelope.                                                               *)
(***************************************************************************)
CheckStatus ==
    /\ pc = "check_status"
    /\ LET out == check_status(response, success_code) IN
       IF out.raised # "" THEN Propagate("check_status", out)
       ELSE pc' = "returned" /\ UNCHANGED error
    /\ UNCHANGED <<pyMajor, argv, srv, sessions, jobs, auth_token, site_id, user_id,
                   project_id, object_id, schedule_id, extract_refresh_id, job_id,
                   page, max_page, projects, requests, response, success_code>>

InitStatus ==
    /\ pyMajor \in {2, 3}
    /\ argv = DefaultArgv
    /\ srv = DefaultServer
    /\ sessions = {}
    /\ jobs = {}
    /\ pc = "check_status"
    /\ auth_token = None /\ site_id = None /\ user_id = None
    /\ project_id = None /\ object_id = None /\ schedule_id = None
    /\ extract_refresh_id = None /\ job_id = None
    /\ page = 1 /\ max_page = 0 /\ projects = <<>>
    /\ requests = <<SignInRequest>>
    /\ response \in {Ok(200, EmptyBody), Ok(204, EmptyBody)}
                     \cup [status_code : {400, 401, 404}, envelope : Envelopes,
                           body : {EmptyBody}]
    /\ success_code \in {200, 204}
    /\ error = NoError

NextStatus == CheckStatus

SpecStatus == InitStatus /\ [][NextStatus]_vars

(* C7 (as claimed): a status other than the expected one raises
   ApiCallError with the message "{code}: {summary} - {detail}", each part
   the envelope's value when it has one and otherwise "unknown code",
   "unknown summary", "unknown detail"; the expected status raises nothing.
   (An element present with no text is left open.) *)
C7_ErrorMessage ==
    pc # "check_status" =>
        IF response.status_code # success_code
        THEN LET env == response.envelope IN
             /\ pc = "failed"
             /\ error.kind = "ApiCallError"
             /\ Len(error.msg) = 5
             /\ error.msg[2] = ": " /\ error.msg[4] = " - "
             /\ error.msg[1] = IF env.error.present /\ env.error.code # None
                               THEN env.error.code[1] ELSE "unknown code"
             /\ env.summary.text # None => error.msg[3] = env.summary.text[1]
             /\ ~env.summary.present => error.msg[3] = "unknown summary"
             /\ env.detail.text # None => error.msg[5] = env.detail.text[1]
             /\ ~env.detail.present => error.msg[5] = "unknown detail"
        ELSE pc = "returned" /\ error = NoError

====
